---- MODULE Spec2Model ----
(***************************************************************************)
(* The two deck builders of github-workflow-demo:                          *)
(*   src/create_powerpoint_final.py     (variant "final")                  *)
(*   src/create_powerpoint_improved.py  (variant "improved")               *)
(* Each is one straight-line procedure, create_presentation, that builds a *)
(* python-pptx document statement by statement, saves it and prints.       *)
(*                                                                         *)
(* A run is modelled as the interpretation of the script's statement list: *)
(* pc is the position of the next statement, one action per statement      *)
(* kind.  The for-loops of the scripts iterate over literal lists; they    *)
(* are unrolled by the operators that build the statement list, with the   *)
(* same index arithmetic as enumerate().                                   *)
(*                                                                         *)
(* Lengths are EMU as in pptx.util (Inches, Pt).  Texts are the scripts'   *)
(* literals with the non-ASCII glyphs (emoji, arrows, bullets) left out or *)
(* written in ASCII, since module text is ASCII.                           *)
(***************************************************************************)
EXTENDS Integers, Sequences, FiniteSets, TLC

VARIABLES
    variant,        \* which script this process runs
    run,            \* number of invocations so far (this one included)
    pc,             \* position of the next statement of create_presentation
    status,         \* "running", "done" (returned), "failed" (uncaught exception)
    prs,            \* the Presentation object: page size and slides
    slide_layout,   \* local slide_layout (index into prs.slide_layouts)
    slide,          \* local slide (position in prs.slides of the slide returned by add_slide)
    tf,             \* local tf: <<slide, shape>> of the text frame being filled
    table,          \* local table: <<slide, shape>> of the table being filled
    stdout,         \* lines printed by this process
    fs,             \* the working directory: file name -> content
    saved,          \* file names this process has passed to prs.save
    entry,          \* the working directory as it was when this process started
    history         \* the completed earlier processes

vars == <<variant, run, pc, status, prs, slide_layout, slide, tf, table,
          stdout, fs, saved, entry, history>>

\* Number of invocations of the scripts in one behaviour.
MaxRuns == 2

Variants == {"final", "improved"}

-----------------------------------------------------------------------------
(* pptx.util                                                               *)

\* Inches(x) = int(x * 914400), x given in thousandths of an inch.
Inches(milli) == (milli * 9144) \div 10

\* Pt(n) = int(n * 12700)
Pt(n) == n * 12700

\* A length or size attribute that was never assigned (None in python-pptx).
Unset == 0 - 1

-----------------------------------------------------------------------------
(* Colour scheme                                                           *)

PRIMARY_COLOR == <<9, 105, 218>>
SECONDARY_COLOR == <<31, 136, 61>>
DANGER_COLOR == <<209, 36, 47>>
WARNING_COLOR == <<251, 133, 0>>
DARK_COLOR == <<36, 41, 47>>
WHITE == <<255, 255, 255>>
\* No colour assigned.
NoColor == <<>>

-----------------------------------------------------------------------------
(* The document tree                                                       *)

\* A paragraph nothing was assigned to.  bold FALSE stands for "not set".
EmptyPara ==
    [text |-> "", level |-> 0, size |-> Unset, bold |-> FALSE,
     color |-> NoColor, space_after |-> Unset, space_before |-> Unset]

\* The placeholders a new slide clones from its layout in the default
\* template: layout 0 is "Title Slide", layout 1 is "Title and Content".
LayoutPlaceholders(layout) ==
    IF layout = 0
    THEN << [kind |-> "placeholder", idx |-> 0, type |-> "ctrTitle", paras |-> <<EmptyPara>>],
            [kind |-> "placeholder", idx |-> 1, type |-> "subTitle", paras |-> <<EmptyPara>>] >>
    ELSE << [kind |-> "placeholder", idx |-> 0, type |-> "title", paras |-> <<EmptyPara>>],
            [kind |-> "placeholder", idx |-> 1, type |-> "object", paras |-> <<EmptyPara>>] >>

\* The state of the name prs before it is bound.
Unbound == [slide_width |-> 0, slide_height |-> 0, slides |-> <<>>]

RECURSIVE MaxSlideId(_)
MaxSlideId(slides) ==
    IF slides = <<>> THEN 255
    ELSE LET m == MaxSlideId(Tail(slides))
         IN  IF Head(slides).slide_id > m THEN Head(slides).slide_id ELSE m

\* prs.slides.add_slide(layout): the new slide is appended, with the next
\* free slide id (ids start at 256) and the layout's placeholders.
add_slide(slides, layout) ==
    Append(slides, [slide_id |-> MaxSlideId(slides) + 1, layout |-> layout,
                    shapes |-> LayoutPlaceholders(layout)])

\* shape.text = lines: one paragraph per line of the assigned string.
TextParas(lines) == [i \in 1..Len(lines) |-> [EmptyPara EXCEPT !.text = lines[i]]]

\* The position of placeholder idx among the shapes of a slide (0: none).
PlaceholderPos(sl, idx) ==
    LET hits == {i \in 1..Len(sl.shapes) :
                    sl.shapes[i].kind = "placeholder" /\ sl.shapes[i].idx = idx}
    IN  IF hits = {} THEN 0 ELSE CHOOSE i \in hits : TRUE

\* shapes.add_textbox(left, top, width, height): one empty paragraph.
NewTextbox(left, top, width, height) ==
    [kind |-> "textbox", left |-> left, top |-> top, width |-> width,
     height |-> height, paras |-> <<EmptyPara>>]

\* A table cell nothing was assigned to.
EmptyCell == [paras |-> <<EmptyPara>>, solid |-> FALSE, fore_color |-> NoColor]

\* shapes.add_table(rows, cols, left, top, width, height): every column gets
\* width / cols, every cell is empty.
NewTable(rows, cols, left, top, width, height) ==
    [kind |-> "table", left |-> left, top |-> top, width |-> width,
     height |-> height, rows |-> rows, cols |-> cols,
     col_widths |-> [c \in 0..(cols - 1) |-> width \div cols],
     cells |-> [r \in 0..(rows - 1) |-> [c \in 0..(cols - 1) |-> EmptyCell]]]

-----------------------------------------------------------------------------
(* The working directory                                                   *)

FinalFile == "GitHub_Workflow_Communication_First.pptx"
ImprovedFile == "GitHub_Workflow_Best_Practices_Improved.pptx"
FileNames == {FinalFile, ImprovedFile}

Absent == [format |-> "absent"]
\* A file some other program left under the name.
Stale == [format |-> "other"]
\* What an interrupted write leaves behind.
Partial == [format |-> "partial"]

\* The output file name each script passes to save.
ExpectedName(v) == IF v = "final" THEN FinalFile ELSE ImprovedFile

\* The package the serializer writes for a document.
Serialize(doc) ==
    [format |-> "pptx", slide_width |-> doc.slide_width,
     slide_height |-> doc.slide_height, slides |-> doc.slides]

\* Presentation(path) on the script's own output: an existing package is
\* opened and built upon.
PresentationFromOutput ==
    LET old == fs[ExpectedName(variant)]
    IN  IF old.format = "pptx"
        THEN [slide_width |-> old.slide_width, slide_height |-> old.slide_height,
              slides |-> old.slides]
        ELSE [slide_width |-> 9144000, slide_height |-> 6858000, slides |-> <<>>]

\* Presentation(): the default template, 4:3 page, no slides.
Presentation ==
    [slide_width |-> 9144000, slide_height |-> 6858000, slides |-> <<>>]

\* An exclusive create: an existing file is kept.
WriteKeepExisting(old, new) == IF old = Absent THEN new ELSE old

\* prs.save(name): the file is opened for writing, which replaces it.
WriteFile(old, new) == new

-----------------------------------------------------------------------------
(* Statements of create_presentation                                       *)

\* prs = Presentation()
S_new == [op |-> "new"]
\* prs.slide_width = v, prs.slide_height = v
S_slide_width(v) == [op |-> "slide_width", value |-> v]
S_slide_height(v) == [op |-> "slide_height", value |-> v]
\* slide_layout = prs.slide_layouts[i]
S_layout(i) == [op |-> "layout", index |-> i]
\* slide = prs.slides.add_slide(slide_layout)
S_add_slide == [op |-> "add_slide"]
\* title = slide.shapes.title; title.text = ...      (idx 0)
\* subtitle = slide.placeholders[1]; subtitle.text = ...  (idx 1)
S_text(idx, lines) == [op |-> "text", idx |-> idx, lines |-> lines]
\* <placeholder idx>.text_frame.paragraphs[0].font.<attr> = ..., one record
\* for the consecutive assignments to the same paragraph
S_font(idx, attrs) == [op |-> "font", idx |-> idx, attrs |-> attrs]
\* content = slide.placeholders[idx]; tf = content.text_frame
S_frame(idx) == [op |-> "frame", idx |-> idx]
\* tf.clear()
S_clear == [op |-> "clear"]
\* p = tf.add_paragraph(); p.text = text; p.<attr> = ... for attrs
S_para(text, attrs) ==
    [op |-> "para", para |-> attrs @@ [EmptyPara EXCEPT !.text = text]]
\* tf.add_paragraph()
S_add_paragraph == [op |-> "para", para |-> EmptyPara]
\* box = slide.shapes.add_textbox(left, top, width, height); tf = box.text_frame
S_textbox(left, top, width, height) ==
    [op |-> "textbox", left |-> left, top |-> top, width |-> width, height |-> height]
\* table = slide.shapes.add_table(rows, cols, left, top, width, height).table
S_table(rows, cols, left, top, width, height) ==
    [op |-> "table", rows |-> rows, cols |-> cols,
     left |-> left, top |-> top, width |-> width, height |-> height]
\* table.columns[col].width = width
S_col_width(col, width) == [op |-> "col_width", col |-> col, width |-> width]
\* cell = table.cell(row, col); cell.text = text;
\* cell.text_frame.paragraphs[0].font.<attr> = ... for attrs
S_cell(row, col, text, attrs) ==
    [op |-> "cell", row |-> row, col |-> col, text |-> text, attrs |-> attrs]
\* cell.fill.solid(); cell.fill.fore_color.rgb = color  (the cell last addressed)
S_fill(row, col, color) == [op |-> "fill", row |-> row, col |-> col, color |-> color]
\* prs.save(name)
S_save(name) == [op |-> "save", name |-> name]
\* print(line)
S_print(line) == [op |-> "print", line |-> line]

RECURSIVE Flatten(_)
Flatten(seqs) == IF seqs = <<>> THEN <<>> ELSE Head(seqs) \o Flatten(Tail(seqs))

-----------------------------------------------------------------------------
(* create_powerpoint_final.py                                              *)

\* The start of the script without the two page size assignments.
F_Page_NoSize == << S_new >>

F_Page ==
    << S_new, S_slide_width(Inches(13333)), S_slide_height(Inches(7500)) >>

\* Slide 1: Title Slide - Communication Focus
F_Slide1 ==
    << S_layout(0), S_add_slide,
       S_text(0, << "GitHub Developer Workflow" >>),
       S_font(0, [size |-> Pt(38), bold |-> TRUE, color |-> PRIMARY_COLOR]),
       S_text(1, << "Phase 1: Improve Team Communication & Standards", "",
                    "Better Collaboration | Consistent Documentation | Faster Decisions", "",
                    "Phase 2: Full GitHub Project Management (Future)", "",
                    "Presented by: Amna & Hanzla" >>),
       S_font(1, [size |-> Pt(16)]) >>

F_agenda_items ==
    << <<"Communication Pain Points", "4 min">>,
       <<"Phase 1: Improve Team Communication", "8 min">>,
       <<"Templates & Standards", "6 min">>,
       <<"Quick Wins Demo", "5 min">>,
       <<"Phase 1 Implementation (2 weeks)", "4 min">>,
       <<"Phase 2 Vision (Future)", "3 min">> >>

\* Slide 2: Agenda
F_Slide2 ==
    << S_layout(1), S_add_slide,
       S_text(0, << "Communication-First Agenda" >>),
       S_frame(1), S_clear >>
    \o [i \in 1..Len(F_agenda_items) |->
          S_para(F_agenda_items[i][1] \o " (" \o F_agenda_items[i][2] \o ")",
                 [level |-> 0, size |-> Pt(20), bold |-> TRUE, space_after |-> Pt(12)])]

F_challenges ==
    << [category |-> "Process Communication (40% Impact)",
        items |-> << "Unclear requirements in issues", "Missing context in PRs",
                     "No standard templates" >>],
       [category |-> "Team Communication (35% Impact)",
        items |-> << "Knowledge silos", "Delayed feedback", "Inconsistent updates" >>],
       [category |-> "Documentation Issues (25% Impact)",
        items |-> << "Outdated information", "Missing project context",
                     "No standardized formats" >>] >>

\* Slide 3: Communication Challenges
F_Slide3 ==
    << S_layout(1), S_add_slide,
       S_text(0, << "Communication Challenges" >>),
       S_frame(1), S_clear >>
    \o Flatten([i \in 1..Len(F_challenges) |->
          << S_para(F_challenges[i].category,
                    [level |-> 0, size |-> Pt(18), bold |-> TRUE, color |-> DANGER_COLOR]) >>
          \o [j \in 1..Len(F_challenges[i].items) |->
                S_para("* " \o F_challenges[i].items[j], [level |-> 1, size |-> Pt(15)])]
          \o << S_add_paragraph >>])

F_benefits ==
    << "Immediate impact on team productivity",
       "Low implementation effort, high value",
       "Builds foundation for Phase 2 (full methodology)",
       "Everyone can contribute regardless of GitHub experience",
       "Reduces confusion and rework by 60%" >>

\* Slide 4: Phase 1 Focus
F_Slide4 ==
    << S_layout(1), S_add_slide,
       S_text(0, << "Phase 1: Communication First" >>),
       S_textbox(Inches(1000), Inches(1800), Inches(11500), Inches(5000)),
       S_clear,
       S_para("Why Communication First?",
              [size |-> Pt(22), bold |-> TRUE, color |-> PRIMARY_COLOR,
               space_after |-> Pt(15)]) >>
    \o [i \in 1..Len(F_benefits) |->
          S_para(F_benefits[i], [size |-> Pt(18), space_after |-> Pt(10)])]

F_col_widths == << Inches(4500), Inches(3900), Inches(3900) >>

F_headers == << "Communication Tool", "Current State", "Phase 1 Improvement" >>

F_data ==
    << << "Issue Creation", "Vague descriptions", "Smart templates" >>,
       << "Pull Requests", "Missing context", "Standard format" >>,
       << "Labels", "Inconsistent usage", "Clear taxonomy" >>,
       << "Communication", "Ad-hoc updates", "Structured process" >> >>

\* The header loop counting its columns from 1.
HeaderLoop_FromOne(headers, size) ==
    Flatten([i \in 1..Len(headers) |->
        << S_cell(0, i, headers[i],
                  [bold |-> TRUE, size |-> size, color |-> WHITE]),
           S_fill(0, i, PRIMARY_COLOR) >>])

\* The header loop without the two fill statements.
HeaderLoop_NoFill(headers, size) ==
    [i \in 1..Len(headers) |->
        S_cell(0, i - 1, headers[i],
               [bold |-> TRUE, size |-> size, color |-> WHITE])]

\* for col, header in enumerate(headers): header cell and its fill
HeaderLoop(headers, size) ==
    Flatten([i \in 1..Len(headers) |->
        << S_cell(0, i - 1, headers[i],
                  [bold |-> TRUE, size |-> size, color |-> WHITE]),
           S_fill(0, i - 1, PRIMARY_COLOR) >>])

\* The data loop with enumerate(data): rows counted from 0.
DataLoop_FromZero(data, size) ==
    Flatten([r \in 1..Len(data) |->
        [c \in 1..Len(data[r]) |-> S_cell(r - 1, c - 1, data[r][c], [size |-> size])]])

\* for row_idx, row_data in enumerate(data, 1):
\*     for col_idx, value in enumerate(row_data): data cell
DataLoop(data, size) ==
    Flatten([r \in 1..Len(data) |->
        [c \in 1..Len(data[r]) |-> S_cell(r, c - 1, data[r][c], [size |-> size])]])

\* table.columns[i].width = ..., one assignment per listed width
\* The width assignments without the one for the last column.
ColumnWidths_SkipLast(widths) ==
    [i \in 1..(Len(widths) - 1) |-> S_col_width(i - 1, widths[i])]

ColumnWidths(widths) == [i \in 1..Len(widths) |-> S_col_width(i - 1, widths[i])]

\* Slide 5: Phase 1 Implementation
F_Slide5 ==
    << S_layout(1), S_add_slide,
       S_text(0, << "Phase 1: Templates & Standards" >>),
       S_table(5, 3, Inches(500), Inches(1800), Inches(12300), Inches(4500)) >>
    \o ColumnWidths(F_col_widths)
    \o HeaderLoop(F_headers, Pt(16))
    \o DataLoop(F_data, Pt(14))

F_quick_wins ==
    << "Deploy issue templates (1 hour setup)",
       "Add PR template (30 minutes)",
       "Create basic label set (15 labels max)",
       "Team training session (1 hour)",
       "Establish update rhythm (daily/weekly)" >>

\* Slide 6: Quick Wins
F_Slide6 ==
    << S_layout(1), S_add_slide,
       S_text(0, << "Phase 1 Quick Wins (Week 1)" >>),
       S_frame(1), S_clear >>
    \o [i \in 1..Len(F_quick_wins) |->
          S_para(F_quick_wins[i], [size |-> Pt(20), space_after |-> Pt(15)])]

\* Slide 7 with the after box placed at the right edge of a 6 inch page
\* column, where the before box has not ended yet.
F_Slide7_Overlap ==
    << S_layout(1), S_add_slide,
       S_text(0, << "Better Issue Communication" >>),
       S_textbox(Inches(500), Inches(1800), Inches(6000), Inches(4500)),
       S_clear,
       S_para("Before: Poor Communication",
              [size |-> Pt(18), bold |-> TRUE, color |-> DANGER_COLOR]),
       S_para("Title: Bug\nDescription: It's broken\n\nResult:\n* Unclear scope\n* Missing context\n* Back-and-forth questions\n* Delayed resolution",
              [size |-> Pt(14)]),
       S_textbox(Inches(6000), Inches(1800), Inches(6000), Inches(4500)),
       S_clear,
       S_para("After: Clear Communication",
              [size |-> Pt(18), bold |-> TRUE, color |-> SECONDARY_COLOR]),
       S_para("Login Error on Mobile\n\nPriority: High\nSteps: 1. Open app 2. Enter credentials\nExpected: Dashboard loads\nActual: 500 error\nScreenshot: [attached]\n\nResult:\n* Clear understanding\n* Immediate action\n* Faster resolution",
              [size |-> Pt(14)]) >>

\* Slide 7: Issue Templates Demo
F_Slide7 ==
    << S_layout(1), S_add_slide,
       S_text(0, << "Better Issue Communication" >>),
       S_textbox(Inches(500), Inches(1800), Inches(6000), Inches(4500)),
       S_clear,
       S_para("Before: Poor Communication",
              [size |-> Pt(18), bold |-> TRUE, color |-> DANGER_COLOR]),
       S_para("Title: Bug\nDescription: It's broken\n\nResult:\n* Unclear scope\n* Missing context\n* Back-and-forth questions\n* Delayed resolution",
              [size |-> Pt(14)]),
       S_textbox(Inches(7000), Inches(1800), Inches(6000), Inches(4500)),
       S_clear,
       S_para("After: Clear Communication",
              [size |-> Pt(18), bold |-> TRUE, color |-> SECONDARY_COLOR]),
       S_para("Login Error on Mobile\n\nPriority: High\nSteps: 1. Open app 2. Enter credentials\nExpected: Dashboard loads\nActual: 500 error\nScreenshot: [attached]\n\nResult:\n* Clear understanding\n* Immediate action\n* Faster resolution",
              [size |-> Pt(14)]) >>

F_roadmap ==
    << << "Week 1: Foundation", "Templates | Labels | Training | First PRs" >>,
       << "Week 2: Adoption", "Measure usage | Iterate | Feedback | Refine" >> >>

F_results ==
    << "80% of issues use templates", "Clearer team communication",
       "30% faster issue resolution", "Consistent documentation" >>

\* Slide 8: 2-Week Implementation Plan
F_Slide8 ==
    << S_layout(1), S_add_slide,
       S_text(0, << "Phase 1: 2-Week Implementation" >>),
       S_frame(1), S_clear >>
    \o Flatten([i \in 1..Len(F_roadmap) |->
          << S_para(F_roadmap[i][1],
                    [size |-> Pt(22), bold |-> TRUE, color |-> PRIMARY_COLOR]),
             S_para(F_roadmap[i][2], [size |-> Pt(18), space_after |-> Pt(20)]) >>])
    \o << S_para("Expected Results After 2 Weeks:", [size |-> Pt(20), bold |-> TRUE]) >>
    \o [i \in 1..Len(F_results) |-> S_para(F_results[i], [size |-> Pt(16)])]

F_phase2_items ==
    << "GitHub Project Boards for sprint management",
       "Automated workflows and quality gates",
       "Sprint planning and velocity tracking",
       "Full CI/CD integration",
       "Advanced reporting and analytics" >>

\* Slide 9: Phase 2 Vision
F_Slide9 ==
    << S_layout(1), S_add_slide,
       S_text(0, << "Phase 2: Full Methodology (Future)" >>),
       S_frame(1), S_clear,
       S_para("After Phase 1 Success, We'll Add:",
              [size |-> Pt(20), bold |-> TRUE, color |-> PRIMARY_COLOR,
               space_after |-> Pt(15)]) >>
    \o [i \in 1..Len(F_phase2_items) |->
          S_para(F_phase2_items[i], [size |-> Pt(18), space_after |-> Pt(10)])]
    \o << S_para("\nTimeline: After Phase 1 proves communication improvements",
                 [size |-> Pt(16), color |-> SECONDARY_COLOR, bold |-> TRUE]) >>

F_actions ==
    << "Add issue template to one repository",
       "Create basic label set (5-10 labels)",
       "Add PR template",
       "Team intro session (30 minutes)",
       "Try on 2-3 issues this week" >>

\* Slide 10: Action Items
F_Slide10 ==
    << S_layout(1), S_add_slide,
       S_text(0, << "Start Phase 1 Today" >>),
       S_frame(1), S_clear,
       S_para("Immediate Actions (This Week):",
              [size |-> Pt(22), bold |-> TRUE, color |-> PRIMARY_COLOR,
               space_after |-> Pt(15)]) >>
    \o [i \in 1..Len(F_actions) |->
          S_para(F_actions[i], [size |-> Pt(18), space_after |-> Pt(8)])]
    \o << S_para("\nResources:",
                 [size |-> Pt(20), bold |-> TRUE, space_before |-> Pt(20)]),
          S_para("Templates: github.com/hanzlahabib/github-workflow-demo",
                 [size |-> Pt(16)]) >>

F_questions ==
    << "How do we get team buy-in for templates?",
       "What if people forget to use them?",
       "How do we measure communication improvement?",
       "When do we move to Phase 2?" >>

\* Slide 11: Questions
F_Slide11 ==
    << S_layout(1), S_add_slide,
       S_text(0, << "Questions & Discussion" >>),
       S_frame(1), S_clear,
       S_para("Phase 1 Questions:",
              [size |-> Pt(20), bold |-> TRUE, space_after |-> Pt(15)]) >>
    \o [i \in 1..Len(F_questions) |->
          S_para(F_questions[i], [size |-> Pt(18), space_after |-> Pt(10)])]
    \o << S_para("\nContact:",
                 [size |-> Pt(20), bold |-> TRUE, space_before |-> Pt(20)]),
          S_para("GitHub: @hanzlahabib | @amna\nDemo: github.com/hanzlahabib/github-workflow-demo",
                 [size |-> Pt(16)]) >>

\* Slide 12 with the title assignment left out.
F_Slide12_NoTitle ==
    << S_layout(0), S_add_slide,
       S_font(0, [size |-> Pt(42), bold |-> TRUE]),
       S_text(1, << "Ready to Improve Team Communication?", "",
                    "Start Phase 1 This Week", "Measure the Impact",
                    "Prepare for Phase 2", "",
                    "Let's build better software, together." >>),
       S_font(1, [size |-> Pt(18)]) >>

\* Slide 12: Thank You
F_Slide12 ==
    << S_layout(0), S_add_slide,
       S_text(0, << "Thank You!" >>),
       S_font(0, [size |-> Pt(42), bold |-> TRUE]),
       S_text(1, << "Ready to Improve Team Communication?", "",
                    "Start Phase 1 This Week", "Measure the Impact",
                    "Prepare for Phase 2", "",
                    "Let's build better software, together." >>),
       S_font(1, [size |-> Pt(18)]) >>

\* The save of the sibling script, left in after copying it.
F_Save_SiblingName == << S_save(ImprovedFile) >>

\* Save the presentation, then the confirmation lines
F_Save == << S_save(FinalFile) >>

\* The confirmation lines without the last one.
F_Prints_Three ==
    << S_print("Communication-focused PowerPoint created successfully!"),
       S_print("File saved as: GitHub_Workflow_Communication_First.pptx"),
       S_print("Emphasizes Phase 1: Communication improvement") >>

F_Prints ==
    << S_print("Communication-focused PowerPoint created successfully!"),
       S_print("File saved as: GitHub_Workflow_Communication_First.pptx"),
       S_print("Emphasizes Phase 1: Communication improvement"),
       S_print("Properly sized for full content visibility") >>

-----------------------------------------------------------------------------
(* create_powerpoint_improved.py                                           *)

I_Page ==
    << S_new, S_slide_width(Inches(13333)), S_slide_height(Inches(7500)) >>

\* Slide 1: Title Slide
I_Slide1 ==
    << S_layout(0), S_add_slide,
       S_text(0, << "GitHub Developer Workflow" >>),
       S_font(0, [size |-> Pt(42), bold |-> TRUE, color |-> PRIMARY_COLOR]),
       S_text(1, << "From Chaos to Clarity: Two-Phase Transformation", "",
                    "Phase 1: Improve Communication & Standards",
                    "Phase 2: Full GitHub Project & Agile Methodology", "",
                    "60% Faster PR Cycles | 40% Fewer Bugs | 90% Team Satisfaction", "",
                    "Presented by: Amna & Hanzla" >>),
       S_font(1, [size |-> Pt(16)]) >>

I_agenda_items ==
    << <<"Current Pain Points", "5 min", "Identify workflow challenges">>,
       <<"Root Cause Analysis", "3 min", "Understanding persistence">>,
       <<"Solution Architecture", "10 min", "GitHub-based workflow system">>,
       <<"Live Demonstration", "7 min", "See workflow in action">>,
       <<"Implementation Roadmap", "5 min", "30-day transformation plan">> >>

\* Slide 2: Agenda
I_Slide2 ==
    << S_layout(1), S_add_slide,
       S_text(0, << "Agenda" >>),
       S_frame(1), S_clear >>
    \o Flatten([i \in 1..Len(I_agenda_items) |->
          << S_para(I_agenda_items[i][1] \o " (" \o I_agenda_items[i][2] \o ")",
                    [level |-> 0, size |-> Pt(17), bold |-> TRUE]),
             S_para(I_agenda_items[i][3],
                    [level |-> 1, size |-> Pt(14), space_after |-> Pt(8)]) >>])

I_challenges ==
    << [category |-> "Process Issues (40% Impact)",
        items |-> << "Split Project Management - Multiple tools",
                     "Inconsistent Formats - 30+ min/PR overhead",
                     "Unclear Sprint Boundaries - 25% scope creep" >>],
       [category |-> "People Issues (35% Impact)",
        items |-> << "Knowledge Gap - Single points of failure",
                     "Poor Communication - Delayed decisions",
                     "Review Quality vs Delay - 3-day PR lifecycle" >>],
       [category |-> "Technical Debt (25% Impact)",
        items |-> << "Production Bugs - Missing quality gates",
                     "Outdated Docs - 60% onboarding confusion",
                     "Notification Chaos - Important items missed" >>] >>

\* Slide 3: Challenges
I_Slide3 ==
    << S_layout(1), S_add_slide,
       S_text(0, << "Current Challenges" >>),
       S_frame(1), S_clear >>
    \o Flatten([i \in 1..Len(I_challenges) |->
          << S_para(I_challenges[i].category,
                    [level |-> 0, size |-> Pt(16), bold |-> TRUE, color |-> DANGER_COLOR]) >>
          \o [j \in 1..Len(I_challenges[i].items) |->
                S_para("* " \o I_challenges[i].items[j], [level |-> 1, size |-> Pt(13)])]
          \o << S_add_paragraph >>])

I_before_items ==
    << "5+ tools for project management", "3-day PR review cycle",
       "40% PRs missing context", "Weekly production bugs",
       "60% sprint completion rate" >>

I_after_items ==
    << "Single GitHub workspace", "4-hour PR review cycle",
       "100% PRs with templates", "90% bug reduction",
       "92% sprint completion rate" >>

\* Slide 4: Transformation
I_Slide4 ==
    << S_layout(1), S_add_slide,
       S_text(0, << "From Chaos to Clarity" >>),
       S_textbox(Inches(300), Inches(1600), Inches(6400), Inches(5200)),
       S_clear,
       S_para("Before (Chaos)",
              [size |-> Pt(18), bold |-> TRUE, color |-> DANGER_COLOR]) >>
    \o [i \in 1..Len(I_before_items) |->
          S_para("* " \o I_before_items[i], [size |-> Pt(15), space_after |-> Pt(4)])]
    \o << S_textbox(Inches(6900), Inches(1600), Inches(6400), Inches(5200)),
          S_clear,
          S_para("After (Clarity)",
                 [size |-> Pt(18), bold |-> TRUE, color |-> SECONDARY_COLOR]) >>
    \o [i \in 1..Len(I_after_items) |->
          S_para("+ " \o I_after_items[i], [size |-> Pt(15), space_after |-> Pt(4)])]

I_col_widths == << Inches(4200), Inches(2800), Inches(2800), Inches(2900) >>

I_headers == << "Component", "Impact", "Effort", "Timeline" >>

I_data ==
    << << "GitHub Project Boards", "*** High", "Low", "Week 1" >>,
       << "Issue Templates", "*** High", "Low", "Week 1" >>,
       << "PR Templates", "*** High", "Low", "Week 1" >>,
       << "GitHub Actions", "*** High", "Medium", "Week 2" >>,
       << "Label Taxonomy", "** Medium", "Low", "Week 1" >> >>

\* Slide 5: Solution Overview
I_Slide5 ==
    << S_layout(1), S_add_slide,
       S_text(0, << "Solution Architecture" >>),
       S_table(6, 4, Inches(300), Inches(1600), Inches(12700), Inches(4800)) >>
    \o ColumnWidths(I_col_widths)
    \o HeaderLoop(I_headers, Pt(15))
    \o DataLoop(I_data, Pt(13))

I_workflow_steps ==
    << "Issue Created -> Template enforced",
       "Auto-labeled -> Type & Priority assigned",
       "Added to Board -> Sprint assigned automatically",
       "Branch Created -> Follows naming convention",
       "PR Opened -> Template applied, checks triggered",
       "Auto-checks -> Quality gates enforced",
       "Merged -> Automatic deployment" >>

\* Slide 6: Workflow Automation
I_Slide6 ==
    << S_layout(1), S_add_slide,
       S_text(0, << "Automated Workflow" >>),
       S_frame(1), S_clear >>
    \o [i \in 1..Len(I_workflow_steps) |->
          S_para(I_workflow_steps[i], [size |-> Pt(16), space_after |-> Pt(8)])]

\* Slide 7: Label System
I_Slide7 ==
    << S_layout(1), S_add_slide,
       S_text(0, << "Intelligent Label Taxonomy" >>),
       S_frame(1), S_clear,
       S_para("Type Labels (One Required):", [size |-> Pt(17), bold |-> TRUE]),
       S_para("type: feature   type: bug   type: task",
              [size |-> Pt(15), space_after |-> Pt(15)]),
       S_para("Priority Matrix:", [size |-> Pt(17), bold |-> TRUE]),
       S_para("critical   high   medium   low",
              [size |-> Pt(15), space_after |-> Pt(15)]),
       S_para("Workflow Status (Auto-updated):", [size |-> Pt(17), bold |-> TRUE]),
       S_para("backlog -> todo -> in-progress", [size |-> Pt(15)]),
       S_para("blocked -> review -> done", [size |-> Pt(15)]) >>

I_roadmap ==
    << << "Week 1: Foundation", "Deploy templates | Configure labels | Team training" >>,
       << "Week 2: Automation", "GitHub Actions | Project boards | Integrations" >>,
       << "Week 3: Integration", "Slack notifications | Analytics dashboard" >>,
       << "Week 4: Optimization", "Refine workflows | Measure success | Scale" >> >>

\* Slide 8: Implementation Roadmap
I_Slide8 ==
    << S_layout(1), S_add_slide,
       S_text(0, << "30-Day Implementation Plan" >>),
       S_frame(1), S_clear >>
    \o Flatten([i \in 1..Len(I_roadmap) |->
          << S_para(I_roadmap[i][1],
                    [size |-> Pt(18), bold |-> TRUE, color |-> PRIMARY_COLOR]),
             S_para(I_roadmap[i][2], [size |-> Pt(15), space_after |-> Pt(12)]) >>])

I_metrics_before ==
    << "PR Cycle: 3 days", "Bug Rate: 15%", "Sprint Success: 60%",
       "Team Satisfaction: 6/10" >>

I_metrics_after ==
    << "PR Cycle: 4 hours (down 87%)", "Bug Rate: 3% (down 80%)",
       "Sprint Success: 92% (up 53%)", "Team Satisfaction: 9/10 (up 50%)" >>

\* Slide 9: Success Metrics
I_Slide9 ==
    << S_layout(1), S_add_slide,
       S_text(0, << "Measurable Success" >>),
       S_textbox(Inches(300), Inches(1600), Inches(6400), Inches(5200)),
       S_clear,
       S_para("Before", [size |-> Pt(20), bold |-> TRUE]) >>
    \o [i \in 1..Len(I_metrics_before) |->
          S_para(I_metrics_before[i], [size |-> Pt(16), space_after |-> Pt(8)])]
    \o << S_textbox(Inches(6900), Inches(1600), Inches(6400), Inches(5200)),
          S_clear,
          S_para("After 30 Days",
                 [size |-> Pt(20), bold |-> TRUE, color |-> SECONDARY_COLOR]) >>
    \o [i \in 1..Len(I_metrics_after) |->
          S_para(I_metrics_after[i], [size |-> Pt(16), space_after |-> Pt(8)])]

I_actions ==
    << "Create your first project board", "Import standard label set",
       "Add issue templates", "Enable branch protection",
       "Configure PR template" >>

\* Slide 10: Action Items
I_Slide10 ==
    << S_layout(1), S_add_slide,
       S_text(0, << "Immediate Actions" >>),
       S_frame(1), S_clear,
       S_para("Do Today:", [size |-> Pt(20), bold |-> TRUE, color |-> PRIMARY_COLOR]) >>
    \o [i \in 1..Len(I_actions) |->
          S_para(I_actions[i], [size |-> Pt(17), space_after |-> Pt(6)])]
    \o << S_para("\nResources:", [size |-> Pt(19), bold |-> TRUE]),
          S_para("Templates: github.com/hanzlahabib/github-workflow-demo",
                 [size |-> Pt(15)]) >>

I_questions ==
    << "How do we handle urgent hotfixes?", "What about multiple repositories?",
       "How to migrate existing issues?", "What's the actual ROI?" >>

I_contact_info ==
    << "GitHub: @hanzlahabib | @amna",
       "Demo: github.com/hanzlahabib/github-workflow-demo",
       "Office Hours: Thursdays 2-3 PM" >>

\* Slide 11: Q&A
I_Slide11 ==
    << S_layout(1), S_add_slide,
       S_text(0, << "Questions & Discussion" >>),
       S_frame(1), S_clear,
       S_para("Common Questions:", [size |-> Pt(19), bold |-> TRUE]) >>
    \o [i \in 1..Len(I_questions) |->
          S_para(I_questions[i], [size |-> Pt(16), space_after |-> Pt(8)])]
    \o << S_para("\nContact & Support:",
                 [size |-> Pt(19), bold |-> TRUE, space_before |-> Pt(15)]) >>
    \o [i \in 1..Len(I_contact_info) |-> S_para(I_contact_info[i], [size |-> Pt(15)])]

\* Slide 12 built on the content layout of the slides before it.
I_Slide12_ContentLayout ==
    << S_layout(1), S_add_slide,
       S_text(0, << "Thank You!" >>),
       S_font(0, [size |-> Pt(46), bold |-> TRUE]),
       S_text(1, << "Ready to Transform Your Workflow?", "",
                    "Start Your 30-Day Journey Today", "",
                    "Let's build better software, together." >>),
       S_font(1, [size |-> Pt(20)]) >>

\* Slide 12: Thank You
I_Slide12 ==
    << S_layout(0), S_add_slide,
       S_text(0, << "Thank You!" >>),
       S_font(0, [size |-> Pt(46), bold |-> TRUE]),
       S_text(1, << "Ready to Transform Your Workflow?", "",
                    "Start Your 30-Day Journey Today", "",
                    "Let's build better software, together." >>),
       S_font(1, [size |-> Pt(20)]) >>

\* Save the presentation, then the confirmation lines
I_Save == << S_save(ImprovedFile) >>

I_Prints ==
    << S_print("Improved PowerPoint presentation created successfully!"),
       S_print("File saved as: GitHub_Workflow_Best_Practices_Improved.pptx"),
       S_print("Optimized for better visibility and content fitting") >>

-----------------------------------------------------------------------------
(* create_presentation as a statement list                                 *)

\* The script with the block of slide 6 lost.
FinalScript_NoSlide6 ==
    F_Page \o F_Slide1 \o F_Slide2 \o F_Slide3 \o F_Slide4 \o F_Slide5
    \o F_Slide7 \o F_Slide8 \o F_Slide9 \o F_Slide10 \o F_Slide11 \o F_Slide12
    \o F_Save \o F_Prints

FinalScript ==
    F_Page \o F_Slide1 \o F_Slide2 \o F_Slide3 \o F_Slide4 \o F_Slide5 \o F_Slide6
    \o F_Slide7 \o F_Slide8 \o F_Slide9 \o F_Slide10 \o F_Slide11 \o F_Slide12
    \o F_Save \o F_Prints

\* The script with the save moved in front of the last slide.
ImprovedScript_SaveEarly ==
    I_Page \o I_Slide1 \o I_Slide2 \o I_Slide3 \o I_Slide4 \o I_Slide5 \o I_Slide6
    \o I_Slide7 \o I_Slide8 \o I_Slide9 \o I_Slide10 \o I_Slide11
    \o I_Save \o I_Slide12 \o I_Prints

ImprovedScript ==
    I_Page \o I_Slide1 \o I_Slide2 \o I_Slide3 \o I_Slide4 \o I_Slide5 \o I_Slide6
    \o I_Slide7 \o I_Slide8 \o I_Slide9 \o I_Slide10 \o I_Slide11 \o I_Slide12
    \o I_Save \o I_Prints

ScriptOf(v) == IF v = "final" THEN FinalScript ELSE ImprovedScript

Script == ScriptOf(variant)

\* The process is about to execute a statement of the given kind.
At(kind) == status = "running" /\ pc <= Len(Script) /\ Script[pc].op = kind

Stmt == Script[pc]

locals == <<slide_layout, slide, tf, table>>
world == <<stdout, fs, saved>>
process == <<variant, run, entry, history>>

\* An exception nothing catches: the interpreter prints a traceback to
\* stderr and the process ends.
Raise ==
    /\ status' = "failed"
    /\ UNCHANGED <<pc, prs, locals, world, process>>

Step == pc' = pc + 1 /\ UNCHANGED <<status, process>>

-----------------------------------------------------------------------------
(* One action per statement kind                                           *)

\* prs = Presentation()
NewPresentation ==
    /\ At("new")
    /\ prs' = Presentation
    /\ Step /\ UNCHANGED <<locals, world>>

\* prs.slide_width = Inches(13.333)
SetSlideWidth ==
    /\ At("slide_width")
    /\ prs' = [prs EXCEPT !.slide_width = Stmt.value]
    /\ Step /\ UNCHANGED <<locals, world>>

\* prs.slide_height = Inches(7.5)
SetSlideHeight ==
    /\ At("slide_height")
    /\ prs' = [prs EXCEPT !.slide_height = Stmt.value]
    /\ Step /\ UNCHANGED <<locals, world>>

\* slide_layout = prs.slide_layouts[i]
SelectLayout ==
    /\ At("layout")
    /\ slide_layout' = Stmt.index
    /\ Step /\ UNCHANGED <<prs, slide, tf, table, world>>

\* slide = prs.slides.add_slide(slide_layout)
AddSlide ==
    /\ At("add_slide")
    /\ prs' = [prs EXCEPT !.slides = add_slide(@, slide_layout)]
    /\ slide' = Len(prs.slides) + 1
    /\ Step /\ UNCHANGED <<slide_layout, tf, table, world>>

\* title = slide.shapes.title; title.text = "..."
\* subtitle = slide.placeholders[1]; subtitle.text = "..."
SetText ==
    /\ At("text")
    /\ LET pos == PlaceholderPos(prs.slides[slide], Stmt.idx)
       IN  IF pos = 0
           THEN Raise
           ELSE /\ prs' = [prs EXCEPT !.slides[slide].shapes[pos].paras =
                                          TextParas(Stmt.lines)]
                /\ Step /\ UNCHANGED <<locals, world>>

\* title.text_frame.paragraphs[0].font.size = ... (and .bold, .color.rgb)
SetFont ==
    /\ At("font")
    /\ LET pos == PlaceholderPos(prs.slides[slide], Stmt.idx)
       IN  IF pos = 0
           THEN Raise
           ELSE /\ prs' = [prs EXCEPT !.slides[slide].shapes[pos].paras[1] =
                                          Stmt.attrs @@ @]
                /\ Step /\ UNCHANGED <<locals, world>>

\* content = slide.placeholders[1]; tf = content.text_frame
GetFrame ==
    /\ At("frame")
    /\ LET pos == PlaceholderPos(prs.slides[slide], Stmt.idx)
       IN  IF pos = 0
           THEN Raise
           ELSE /\ tf' = <<slide, pos>>
                /\ Step /\ UNCHANGED <<prs, slide_layout, slide, table, world>>

\* tf.clear(): all paragraphs but the first are removed, the first loses its text
Clear ==
    /\ At("clear")
    /\ prs' = [prs EXCEPT !.slides[tf[1]].shapes[tf[2]].paras =
                              << [@[1] EXCEPT !.text = ""] >>]
    /\ Step /\ UNCHANGED <<locals, world>>

\* p = tf.add_paragraph(); p.text = ...; p.font.size = ...; ...
AddParagraph ==
    /\ At("para")
    /\ prs' = [prs EXCEPT !.slides[tf[1]].shapes[tf[2]].paras = Append(@, Stmt.para)]
    /\ Step /\ UNCHANGED <<locals, world>>

\* box = slide.shapes.add_textbox(left, top, width, height); tf = box.text_frame
AddTextbox ==
    /\ At("textbox")
    /\ prs' = [prs EXCEPT !.slides[slide].shapes =
                 Append(@, NewTextbox(Stmt.left, Stmt.top, Stmt.width, Stmt.height))]
    /\ tf' = <<slide, Len(prs.slides[slide].shapes) + 1>>
    /\ Step /\ UNCHANGED <<slide_layout, slide, table, world>>

\* table = slide.shapes.add_table(rows, cols, left, top, width, height).table
AddTable ==
    /\ At("table")
    /\ prs' = [prs EXCEPT !.slides[slide].shapes =
                 Append(@, NewTable(Stmt.rows, Stmt.cols, Stmt.left, Stmt.top,
                                    Stmt.width, Stmt.height))]
    /\ table' = <<slide, Len(prs.slides[slide].shapes) + 1>>
    /\ Step /\ UNCHANGED <<slide_layout, slide, tf, world>>

TheTable == prs.slides[table[1]].shapes[table[2]]

\* table.columns[i].width = Inches(w): IndexError outside the columns
SetColumnWidth ==
    /\ At("col_width")
    /\ IF Stmt.col \notin 0..(TheTable.cols - 1)
       THEN Raise
       ELSE /\ prs' = [prs EXCEPT !.slides[table[1]].shapes[table[2]]
                                       .col_widths[Stmt.col] = Stmt.width]
            /\ Step /\ UNCHANGED <<locals, world>>

\* table.cell(r, c): IndexError outside the grid
InGrid(t, row, col) == row \in 0..(t.rows - 1) /\ col \in 0..(t.cols - 1)

\* cell = table.cell(r, c); cell.text = ...; cell.text_frame.paragraphs[0].font... = ...
SetCell ==
    /\ At("cell")
    /\ IF ~InGrid(TheTable, Stmt.row, Stmt.col)
       THEN Raise
       ELSE /\ prs' = [prs EXCEPT !.slides[table[1]].shapes[table[2]]
                                       .cells[Stmt.row][Stmt.col].paras =
                          << Stmt.attrs @@ TextParas(<<Stmt.text>>)[1] >>]
            /\ Step /\ UNCHANGED <<locals, world>>

\* cell.fill.solid(); cell.fill.fore_color.rgb = PRIMARY_COLOR
FillCell ==
    /\ At("fill")
    /\ IF ~InGrid(TheTable, Stmt.row, Stmt.col)
       THEN Raise
       ELSE /\ prs' = [prs EXCEPT !.slides[table[1]].shapes[table[2]]
                                       .cells[Stmt.row][Stmt.col] =
                          [@ EXCEPT !.solid = TRUE, !.fore_color = Stmt.color]]
            /\ Step /\ UNCHANGED <<locals, world>>

\* prs.save(name) returns: the file holds the package of the document
SaveOk ==
    /\ At("save")
    /\ fs' = [fs EXCEPT ![Stmt.name] = WriteFile(@, Serialize(prs))]
    /\ saved' = Append(saved, Stmt.name)
    /\ Step /\ UNCHANGED <<prs, locals, stdout>>

\* The save wrapped in try/except: the exception is swallowed and the
\* statements after the save run.
SaveFail_Caught ==
    /\ At("save")
    /\ saved' = Append(saved, Stmt.name)
    /\ Step /\ UNCHANGED <<prs, locals, stdout, fs>>

\* prs.save(name) raises (permission denied, disk full): nothing catches it.
\* The file is untouched when it could not be opened, truncated otherwise.
SaveFail ==
    /\ At("save")
    /\ \E opened \in BOOLEAN :
          fs' = IF opened THEN [fs EXCEPT ![Stmt.name] = Partial] ELSE fs
    /\ saved' = Append(saved, Stmt.name)
    /\ status' = "failed"
    /\ UNCHANGED <<pc, prs, locals, stdout, process>>

\* print(line)
PrintLine ==
    /\ At("print")
    /\ stdout' = Append(stdout, Stmt.line)
    /\ Step /\ UNCHANGED <<prs, locals, fs, saved>>

\* The entry point calling create_presentation in a loop: after the last
\* statement the procedure is entered again.
Return_Reenter ==
    /\ status = "running"
    /\ pc = Len(Script) + 1
    /\ pc' = 1
    /\ UNCHANGED <<status, prs, locals, world, process>>

\* create_presentation returns and the process exits
Return ==
    /\ status = "running"
    /\ pc = Len(Script) + 1
    /\ status' = "done"
    /\ UNCHANGED <<pc, prs, locals, world, process>>

\* if __name__ == "__main__": create_presentation() -- one of the scripts is
\* run again, as a new process, in the same working directory
Invoke ==
    /\ status \in {"done", "failed"}
    /\ run < MaxRuns
    /\ \E v \in Variants : variant' = v
    /\ run' = run + 1
    /\ history' = Append(history, [variant |-> variant, status |-> status,
                                   prs |-> prs, stdout |-> stdout, saved |-> saved,
                                   fs |-> fs])
    /\ entry' = fs
    /\ pc' = 1
    /\ status' = "running"
    /\ prs' = Unbound
    /\ slide_layout' = Unset
    /\ slide' = 0
    /\ tf' = <<0, 0>>
    /\ table' = <<0, 0>>
    /\ stdout' = <<>>
    /\ saved' = <<>>
    /\ UNCHANGED fs

Init ==
    /\ variant \in Variants
    /\ run = 1
    /\ pc = 1
    /\ status = "running"
    /\ prs = Unbound
    /\ slide_layout = Unset
    /\ slide = 0
    /\ tf = <<0, 0>>
    /\ table = <<0, 0>>
    /\ stdout = <<>>
    /\ fs \in [FileNames -> {Absent, Stale}]
    /\ saved = <<>>
    /\ entry = fs
    /\ history = <<>>

Next ==
    \/ NewPresentation
    \/ SetSlideWidth
    \/ SetSlideHeight
    \/ SelectLayout
    \/ AddSlide
    \/ SetText
    \/ SetFont
    \/ GetFrame
    \/ Clear
    \/ AddParagraph
    \/ AddTextbox
    \/ AddTable
    \/ SetColumnWidth
    \/ SetCell
    \/ FillCell
    \/ SaveOk
    \/ SaveFail
    \/ PrintLine
    \/ Return
    \/ Invoke

Spec == Init /\ [][Next]_vars

\* A step of the running process: the interpreter executes the next
\* statement, or returns.
RunStep ==
    \/ NewPresentation \/ SetSlideWidth \/ SetSlideHeight \/ SelectLayout
    \/ AddSlide \/ SetText \/ SetFont \/ GetFrame \/ Clear \/ AddParagraph
    \/ AddTextbox \/ AddTable \/ SetColumnWidth \/ SetCell \/ FillCell
    \/ SaveOk \/ SaveFail \/ PrintLine \/ Return

\* The interpreter keeps executing a process that can take a step (the
\* script is single-threaded and never waits); whether a script is run again
\* is left open.
FairSpec == Init /\ [][Next]_vars /\ WF_vars(RunStep)

-----------------------------------------------------------------------------
(* Properties                                                              *)

\* Number of statements of a kind among the first n of the running script.
Executed(kind, n) == Cardinality({i \in 1..n : Script[i].op = kind})

\* The document is complete: the save is next, or was called.
AtOrPastSave == At("save") \/ saved # <<>>

\* The text of the title placeholder of a slide ("" when never assigned).
TitleText(sl) ==
    LET pos == PlaceholderPos(sl, 0)
    IN  IF pos = 0 THEN "" ELSE sl.shapes[pos].paras[1].text

\* The tables among the shapes of a slide.
Tables(sl) == SelectSeq(sl.shapes, LAMBDA sh : sh.kind = "table")

\* The header list of each script.
HeadersOf(v) == IF v = "final" THEN F_headers ELSE I_headers

\* The texts of row 0 of a table, column by column.
HeaderRow(t) == [c \in 1..t.cols |-> t.cells[0][c - 1].paras[1].text]

\* The kinds of the shapes of a slide the script put content in: the title
\* and body placeholders it assigned text to, the text boxes and the tables
\* it added, in shape order.
KindOf(sh) ==
    IF sh.kind = "placeholder" THEN (IF sh.idx = 0 THEN "title" ELSE "body")
    ELSE sh.kind

ShapeKinds(sl) ==
    LET used == SelectSeq(sl.shapes,
                    LAMBDA sh : sh.kind # "placeholder" \/ sh.paras # <<EmptyPara>>)
    IN  [i \in 1..Len(used) |-> KindOf(used[i])]

\* The grid sizes of the tables of a slide.
Grids(sl) == [i \in 1..Len(Tables(sl)) |-> <<Tables(sl)[i].rows, Tables(sl)[i].cols>>]

\* The confirmation lines a script prints, from its print statements.
PrintedLines(v) ==
    LET ps == SelectSeq(ScriptOf(v), LAMBDA st : st.op = "print")
    IN  [i \in 1..Len(ps) |-> ps[i].line]

\* C1: the slide count never exceeds 12, every add_slide executed so far has
\* appended exactly one slide that is still there in creation order (the k-th
\* slide carries the k-th slide id), and at the save call the document holds
\* exactly 12 slides.
C1_TwelveSlidesInOrder ==
    /\ Len(prs.slides) <= 12
    /\ status = "running" => Len(prs.slides) = Executed("add_slide", pc - 1)
    /\ \A k \in 1..Len(prs.slides) : prs.slides[k].slide_id = 255 + k
    /\ AtOrPastSave => Len(prs.slides) = 12

C1_Witness ==
    /\ At("save")
    /\ Len(prs.slides) = 12
    /\ prs.slides[12].slide_id = 267

\* C2 as claimed: at the save, slide 5 holds one table of exactly 5 rows and
\* 3 or 4 columns whose row 0 texts are the script's header list.
C2_Original ==
    AtOrPastSave =>
        /\ Len(Tables(prs.slides[5])) = 1
        /\ Tables(prs.slides[5])[1].rows = 5
        /\ Tables(prs.slides[5])[1].cols \in {3, 4}
        /\ HeaderRow(Tables(prs.slides[5])[1]) = HeadersOf(variant)

\* C2 amended: the slide 5 table has 5 rows and 3 columns in the final script
\* and 6 rows and 4 columns in the improved script; while it is filled every
\* row 0 cell is empty or holds the header of its column, and at the save
\* row 0 is the script's header list.
C2_TableGridAndHeaders ==
    /\ \A k \in 1..Len(prs.slides) :
          \A i \in 1..Len(Tables(prs.slides[k])) :
             LET t == Tables(prs.slides[k])[i]
             IN  /\ k = 5
                 /\ t.rows = (IF variant = "final" THEN 5 ELSE 6)
                 /\ t.cols = (IF variant = "final" THEN 3 ELSE 4)
                 /\ t.cols = Len(HeadersOf(variant))
                 /\ \A c \in 1..t.cols :
                       HeaderRow(t)[c] \in {"", HeadersOf(variant)[c]}
    /\ AtOrPastSave =>
          /\ Len(Tables(prs.slides[5])) = 1
          /\ HeaderRow(Tables(prs.slides[5])[1]) = HeadersOf(variant)

C2_Witness ==
    /\ At("save")
    /\ variant = "improved"
    /\ Tables(prs.slides[5])[1].rows = 6
    /\ HeaderRow(Tables(prs.slides[5])[1]) = I_headers

\* C3: a process calls save at most once, only with its script's fixed file
\* name; a process that returned called it exactly once; and no file other
\* than that one differs from what it was when the process started, nor does
\* that one before the save.
C3_OneSaveToFixedName ==
    /\ Len(saved) <= 1
    /\ \A i \in 1..Len(saved) : saved[i] = ExpectedName(variant)
    /\ status = "done" => saved = << ExpectedName(variant) >>
    /\ saved = <<>> => fs = entry
    /\ \A f \in FileNames \ {ExpectedName(variant)} : fs[f] = entry[f]

C3_Witness ==
    /\ status = "done"
    /\ variant = "final"
    /\ saved = << FinalFile >>
    /\ fs[FinalFile].format = "pptx"

\* C4 as claimed: a process that started without its output file and
\* returned leaves the file present and has printed exactly three lines.
C4_Original ==
    (status = "done" /\ entry[ExpectedName(variant)] = Absent) =>
        /\ fs[ExpectedName(variant)].format = "pptx"
        /\ Len(stdout) = 3

\* C4 amended: a process that started without its output file and returned
\* leaves the file present and has printed its script's fixed confirmation
\* lines: four for the final script, three for the improved script.
C4_FilePresentAndLinesPrinted ==
    (status = "done" /\ entry[ExpectedName(variant)] = Absent) =>
        /\ fs[ExpectedName(variant)].format = "pptx"
        /\ stdout = PrintedLines(variant)
        /\ Len(stdout) = (IF variant = "final" THEN 4 ELSE 3)

C4_Witness ==
    /\ status = "done"
    /\ variant = "final"
    /\ entry[FinalFile] = Absent
    /\ fs[FinalFile].format = "pptx"
    /\ Len(stdout) = 4

\* C5: a process that has finished building holds the same document as every
\* earlier process of the same script, whatever the working directory held;
\* and when both saved, the output file holds what the earlier one left.
C5_RerunIdempotent ==
    \A i \in 1..Len(history) :
        history[i].variant = variant =>
            /\ (At("save") \/ status # "running") => prs = history[i].prs
            /\ (status = "done" /\ history[i].status = "done") =>
                  /\ fs[ExpectedName(variant)] = history[i].fs[ExpectedName(variant)]
                  /\ fs[ExpectedName(variant)] = Serialize(history[i].prs)

C5_Witness ==
    /\ run = 2
    /\ status = "done"
    /\ history[1].variant = variant
    /\ history[1].status = "done"
    /\ entry[ExpectedName(variant)].format = "pptx"
    /\ fs[ExpectedName(variant)] = history[1].fs[ExpectedName(variant)]

\* C6: a process whose save raised is failed, stopped at the save, has
\* printed nothing and called save once; and a process that called save and is
\* not failed has written the file, so a failing save is never passed over.
C6_SaveFailureNotCaught ==
    /\ status = "failed" =>
          /\ pc <= Len(Script)
          /\ Script[pc].op = "save"
          /\ stdout = <<>>
          /\ saved = << ExpectedName(variant) >>
    /\ stdout # <<>> => status # "failed"
    /\ (saved # <<>> /\ status # "failed") => fs[saved[1]] = Serialize(prs)
    /\ Len(saved) <= 1

C6_Witness ==
    /\ status = "failed"
    /\ saved = << ExpectedName(variant) >>
    /\ fs[ExpectedName(variant)] = Partial
    /\ stdout = <<>>

\* C7: a process that started with its output file present and returned
\* leaves in it the package of the document it built, whatever the file held,
\* and every other file as it was.
C7_OverwritesExisting ==
    (status = "done" /\ entry[ExpectedName(variant)] # Absent) =>
        /\ fs[ExpectedName(variant)] = Serialize(prs)
        /\ \A f \in FileNames \ {ExpectedName(variant)} : fs[f] = entry[f]

C7_Witness ==
    /\ status = "done"
    /\ entry[ExpectedName(variant)] = Stale
    /\ fs[ExpectedName(variant)] = Serialize(prs)
    /\ \E f \in FileNames : fs[f] = Absent

\* C8: once a process has called save, no step of it changes the document,
\* the files or the list of saves (only prints and the return follow).
C8_BuiltThenWrittenOnce ==
    [][(saved # <<>> /\ run' = run) =>
          (prs' = prs /\ fs' = fs /\ saved' = saved)]_vars

C8_Witness ==
    /\ saved # <<>>
    /\ status = "done"
    /\ stdout # <<>>
    /\ fs[saved[1]] = Serialize(prs)

\* Both scripts have written their file.
BothWritten == fs[FinalFile].format = "pptx" /\ fs[ImprovedFile].format = "pptx"

\* C9 as claimed: on every slide 1..12 the two written documents have the
\* same layout, the same sequence of shape kinds and the same table grids.
C9_Original ==
    BothWritten =>
        \A k \in 1..12 :
            /\ fs[FinalFile].slides[k].layout = fs[ImprovedFile].slides[k].layout
            /\ ShapeKinds(fs[FinalFile].slides[k]) = ShapeKinds(fs[ImprovedFile].slides[k])
            /\ Grids(fs[FinalFile].slides[k]) = Grids(fs[ImprovedFile].slides[k])

\* The slides on which the scripts create different shapes.
DifferingSlides == {4, 7, 9}

\* C9 amended: on every slide 1..12 the two written documents have the same
\* layout; on every slide but 4, 7 and 9 the same sequence of shape kinds;
\* each has its only table on slide 5, of 5 x 3 cells in the final script and
\* 6 x 4 in the improved script.
C9_SameLayoutsAndKinds ==
    BothWritten =>
        /\ Len(fs[FinalFile].slides) = 12
        /\ Len(fs[ImprovedFile].slides) = 12
        /\ \A k \in 1..12 :
              /\ fs[FinalFile].slides[k].layout = fs[ImprovedFile].slides[k].layout
              /\ k \notin DifferingSlides =>
                    ShapeKinds(fs[FinalFile].slides[k]) = ShapeKinds(fs[ImprovedFile].slides[k])
              /\ k # 5 => /\ Grids(fs[FinalFile].slides[k]) = <<>>
                          /\ Grids(fs[ImprovedFile].slides[k]) = <<>>
        /\ Grids(fs[FinalFile].slides[5]) = << <<5, 3>> >>
        /\ Grids(fs[ImprovedFile].slides[5]) = << <<6, 4>> >>

C9_Witness ==
    /\ BothWritten
    /\ status = "done"
    /\ ShapeKinds(fs[FinalFile].slides[4]) = << "title", "textbox" >>
    /\ ShapeKinds(fs[ImprovedFile].slides[4]) = << "title", "textbox", "textbox" >>

\* C10: slides 1 and 12 have layout 0 and slides 2 to 11 layout 1; every
\* slide followed by another has its title set, and at the save every slide
\* has.
C10_LayoutAndTitlePerSlide ==
    /\ \A k \in 1..Len(prs.slides) :
          /\ prs.slides[k].layout = (IF k \in {1, 12} THEN 0 ELSE 1)
          /\ (k < Len(prs.slides) \/ AtOrPastSave) => TitleText(prs.slides[k]) # ""
    /\ AtOrPastSave => Len(prs.slides) = 12

C10_Witness ==
    /\ At("save")
    /\ \A k \in 1..12 : TitleText(prs.slides[k]) # ""
    /\ prs.slides[12].layout = 0
    /\ prs.slides[11].layout = 1


\* The table of slide 5 (the script's only table).
Slide5Table == Tables(prs.slides[5])[1]

\* A cell carries the header style: solid fill in the primary colour, bold
\* white text.
HeaderStyled(cell) ==
    /\ cell.solid
    /\ cell.fore_color = PRIMARY_COLOR
    /\ cell.paras[1].bold
    /\ cell.paras[1].color = WHITE

\* C11: in every table, at every moment, no cell of a row >= 1 has a fill, a
\* fill colour or bold text, and a row 0 cell that has any of them has the
\* whole header style; at the save every row 0 cell of the slide 5 table, in
\* every column, has the header style.
C11_HeaderRowStyledOnly ==
    /\ \A k \in 1..Len(prs.slides) :
          \A i \in 1..Len(Tables(prs.slides[k])) :
             LET t == Tables(prs.slides[k])[i]
             IN  \A r \in 0..(t.rows - 1) : \A c \in 0..(t.cols - 1) :
                    /\ r >= 1 => /\ ~t.cells[r][c].solid
                                 /\ t.cells[r][c].fore_color = NoColor
                                 /\ ~t.cells[r][c].paras[1].bold
                    /\ (r = 0 /\ t.cells[r][c].solid) => HeaderStyled(t.cells[r][c])
    /\ AtOrPastSave =>
          \A c \in 0..(Slide5Table.cols - 1) : HeaderStyled(Slide5Table.cells[0][c])

C11_Witness ==
    /\ At("save")
    /\ variant = "improved"
    /\ \A c \in 0..3 : HeaderStyled(Slide5Table.cells[0][c])
    /\ Slide5Table.cells[5][3].paras[1].text = "Week 1"
    /\ ~Slide5Table.cells[5][3].solid


\* The before/after comparison slides of each script.
ComparisonSlides(v) == IF v = "final" THEN {7} ELSE {4, 9}

\* The text boxes the script added to a slide, in creation order.
TextBoxes(sl) == SelectSeq(sl.shapes, LAMBDA sh : sh.kind = "textbox")

\* The heading of a text box: its first added paragraph (the paragraph
\* before it is the empty one clear() leaves).
Heading(box) == IF Len(box.paras) >= 2 THEN box.paras[2].text ELSE ""

BeforeHeadings == {"Before: Poor Communication", "Before (Chaos)", "Before"}
AfterHeadings == {"After: Clear Communication", "After (Clarity)", "After 30 Days"}

\* A slide is finished: a later slide was added, or the save was reached.
Finished(k) == k < Len(prs.slides) \/ (k = Len(prs.slides) /\ AtOrPastSave)

\* C12: every finished comparison slide holds exactly two added text boxes,
\* the first created being the before box and the second the after box, with
\* equal top, width and height, the before box ending at or left of where
\* the after box starts.
C12_SideBySideBoxes ==
    \A k \in ComparisonSlides(variant) :
        Finished(k) =>
            LET boxes == TextBoxes(prs.slides[k])
            IN  /\ Len(boxes) = 2
                /\ Heading(boxes[1]) \in BeforeHeadings
                /\ Heading(boxes[2]) \in AfterHeadings
                /\ boxes[1].top = boxes[2].top
                /\ boxes[1].width = boxes[2].width
                /\ boxes[1].height = boxes[2].height
                /\ boxes[1].left + boxes[1].width <= boxes[2].left

C12_Witness ==
    /\ At("save")
    /\ variant = "improved"
    /\ Len(TextBoxes(prs.slides[4])) = 2
    /\ Len(TextBoxes(prs.slides[9])) = 2
    /\ TextBoxes(prs.slides[9])[1].left + TextBoxes(prs.slides[9])[1].width
          < TextBoxes(prs.slides[9])[2].left
    /\ Heading(TextBoxes(prs.slides[9])[2]) = "After 30 Days"


\* C13: no process runs forever (at every moment the process then running
\* is later done or failed, here or as an earlier process of a rerun); within
\* a process the position never moves back and a process that is done or
\* failed takes no further step; a done process has passed the last
\* statement, saved and printed its confirmation lines, and a failed one
\* stands at the save.
C13_EveryRunTerminates ==
    /\ []<>(status \in {"done", "failed"})
    /\ [][run' = run => /\ pc' >= pc
                        /\ status # "running" => UNCHANGED vars]_vars
    /\ [](status = "done" => /\ pc = Len(Script) + 1
                             /\ saved = << ExpectedName(variant) >>
                             /\ stdout = PrintedLines(variant))
    /\ [](status = "failed" => /\ pc <= Len(Script)
                               /\ Script[pc].op = "save"
                               /\ saved # <<>>)

C13_Witness ==
    /\ run = MaxRuns
    /\ status = "done"
    /\ pc = Len(Script) + 1
    /\ history[1].status = "failed"


\* The shapes of a slide that were given a position: text boxes and tables.
Positioned(sl) == SelectSeq(sl.shapes, LAMBDA sh : sh.kind \in {"textbox", "table"})

\* A shape lies inside a page of the given size.
InsidePage(sh, width, height) ==
    /\ sh.left >= 0
    /\ sh.top >= 0
    /\ sh.left + sh.width <= width
    /\ sh.top + sh.height <= height

\* C14: as soon as the document has a slide, and from then on, the page is
\* Inches(13.333) wide and Inches(7.5) high, and every added text box and
\* table lies inside it.
C14_ShapesInsidePage ==
    /\ prs.slides # <<>> =>
          /\ prs.slide_width = Inches(13333)
          /\ prs.slide_height = Inches(7500)
    /\ \A k \in 1..Len(prs.slides) :
          \A i \in 1..Len(Positioned(prs.slides[k])) :
             InsidePage(Positioned(prs.slides[k])[i], prs.slide_width, prs.slide_height)

C14_Witness ==
    /\ At("save")
    /\ variant = "improved"
    /\ prs.slide_width = Inches(13333)
    /\ Len(Positioned(prs.slides[9])) = 2
    /\ Positioned(prs.slides[9])[2].left + Positioned(prs.slides[9])[2].width
          = Inches(6900) + Inches(6400)
    /\ Len(Positioned(prs.slides[5])) = 1


\* The data rows of each script.
DataOf(v) == IF v = "final" THEN F_data ELSE I_data

\* How often the statements executed so far assigned text to cell (r, c).
CellWrites(r, c) ==
    Cardinality({i \in 1..(pc - 1) :
                    Script[i].op = "cell" /\ Script[i].row = r /\ Script[i].col = c})

\* C15: a cell or fill statement about to execute addresses a cell inside
\* the grid of the table, and no process fails anywhere but at the save; no
\* cell of the grid is assigned text more than once, a cell has text exactly
\* when it was assigned, and at the save every cell was assigned once; the
\* header list is as long as the table is wide, there is one data tuple per
\* row below the header, each as long as the table is wide.
C15_CellWritesCoverGrid ==
    /\ (At("cell") \/ At("fill")) => InGrid(TheTable, Stmt.row, Stmt.col)
    /\ status = "failed" => Script[pc].op = "save"
    /\ \A k \in 1..Len(prs.slides) :
          \A i \in 1..Len(Tables(prs.slides[k])) :
             LET t == Tables(prs.slides[k])[i]
             IN  /\ Len(HeadersOf(variant)) = t.cols
                 /\ Len(DataOf(variant)) = t.rows - 1
                 /\ \A r \in 1..Len(DataOf(variant)) :
                       Len(DataOf(variant)[r]) = t.cols
                 /\ \A r \in 0..(t.rows - 1) : \A c \in 0..(t.cols - 1) :
                       /\ CellWrites(r, c) <= 1
                       /\ (CellWrites(r, c) = 1) <=> (t.cells[r][c].paras[1].text # "")
                       /\ AtOrPastSave => CellWrites(r, c) = 1

C15_Witness ==
    /\ At("save")
    /\ variant = "final"
    /\ \A r \in 0..4 : \A c \in 0..2 :
          /\ CellWrites(r, c) = 1
          /\ Slide5Table.cells[r][c].paras[1].text # ""
    /\ Slide5Table.cells[4][2].paras[1].text = "Structured process"


\* How often the statements executed so far assigned a width to column c.
WidthWrites(c) ==
    Cardinality({i \in 1..(pc - 1) :
                    Script[i].op = "col_width" /\ Script[i].col = c})

\* The sum of the first n column widths of table t (columns 0..n-1).
RECURSIVE SumWidths(_, _)
SumWidths(t, n) == IF n = 0 THEN 0 ELSE SumWidths(t, n - 1) + t.col_widths[n - 1]

\* C16: at the save, every column of the slide 5 table was assigned one
\* width and the column widths add up, in EMU, to the width the table was
\* created with: Inches(12.3) in the final script, Inches(12.7) in the
\* improved one.
C16_ColumnWidthsSumToTableWidth ==
    AtOrPastSave =>
        /\ \A c \in 0..(Slide5Table.cols - 1) : WidthWrites(c) = 1
        /\ SumWidths(Slide5Table, Slide5Table.cols) = Slide5Table.width
        /\ Slide5Table.width = IF variant = "final" THEN Inches(12300) ELSE Inches(12700)

C16_Witness ==
    /\ At("save")
    /\ variant = "improved"
    /\ Slide5Table.col_widths[3] = Inches(2900)
    /\ WidthWrites(3) = 1
    /\ SumWidths(Slide5Table, 4) = Inches(12700)

=============================================================================
